---- MODULE Spec2Model ----
(***************************************************************************)
(* The arXiv paper loader and its read side (src/problem2): load_data.py   *)
(* projects every paper into denormalized DynamoDB items and writes them   *)
(* through a batch writer; query_papers.py and api_server.py answer five   *)
(* access patterns with one key-range query each.                          *)
(*                                                                         *)
(* A Python string is a tuple of one-character strings, so that slicing,   *)
(* concatenation, lower-casing and the byte-wise order DynamoDB sorts      *)
(* string keys by are all computed character by character.  A dict is a    *)
(* function whose DOMAIN holds the keys that are present.                  *)
(***************************************************************************)
EXTENDS Integers, Sequences, FiniteSets, TLC

VARIABLES
    table,            \* the DynamoDB table: the set of stored items
    batch,            \* main(): the in-memory list `batch`
    total_items,      \* main(): the running item total
    total_breakdown,  \* main(): the per-kind Counter
    pc,               \* "idle", "loop", "done" (summary printed), "aborted" (traceback)
    fault,            \* why the last run aborted: "none", "build", "put_batch"
    ingested,         \* every paper the loop has taken from the input, over all runs
    runs,             \* number of loader runs started
    clean,            \* TRUE while no run has aborted
    calls,            \* sizes of the store-write calls of the last put_batch
    resp              \* the last answer of the read side

vars == <<table, batch, total_items, total_breakdown, pc, fault, ingested, runs, clean,
          calls, resp>>

(***************************************************************************)
(* Bounds of the model.                                                    *)
(***************************************************************************)
MaxPapers == 2
MaxRuns == 2

(***************************************************************************)
(* Characters and strings.                                                 *)
(***************************************************************************)
CodeTable == <<
    <<" ", 32>>, <<"!", 33>>, <<"#", 35>>, <<"$", 36>>, <<"%", 37>>, <<"&", 38>>, <<"'", 39>>,
    <<"(", 40>>, <<")", 41>>, <<"*", 42>>, <<"+", 43>>, <<",", 44>>, <<"-", 45>>, <<".", 46>>,
    <<"/", 47>>, <<"0", 48>>, <<"1", 49>>, <<"2", 50>>, <<"3", 51>>, <<"4", 52>>, <<"5", 53>>,
    <<"6", 54>>, <<"7", 55>>, <<"8", 56>>, <<"9", 57>>, <<":", 58>>, <<";", 59>>, <<"<", 60>>,
    <<"=", 61>>, <<">", 62>>, <<"?", 63>>, <<"@", 64>>, <<"A", 65>>, <<"B", 66>>, <<"C", 67>>,
    <<"D", 68>>, <<"E", 69>>, <<"F", 70>>, <<"G", 71>>, <<"H", 72>>, <<"I", 73>>, <<"J", 74>>,
    <<"K", 75>>, <<"L", 76>>, <<"M", 77>>, <<"N", 78>>, <<"O", 79>>, <<"P", 80>>, <<"Q", 81>>,
    <<"R", 82>>, <<"S", 83>>, <<"T", 84>>, <<"U", 85>>, <<"V", 86>>, <<"W", 87>>, <<"X", 88>>,
    <<"Y", 89>>, <<"Z", 90>>, <<"[", 91>>, <<"]", 93>>, <<"^", 94>>, <<"_", 95>>,
    <<"a", 97>>, <<"b", 98>>, <<"c", 99>>, <<"d", 100>>, <<"e", 101>>, <<"f", 102>>,
    <<"g", 103>>, <<"h", 104>>, <<"i", 105>>, <<"j", 106>>, <<"k", 107>>, <<"l", 108>>,
    <<"m", 109>>, <<"n", 110>>, <<"o", 111>>, <<"p", 112>>, <<"q", 113>>, <<"r", 114>>,
    <<"s", 115>>, <<"t", 116>>, <<"u", 117>>, <<"v", 118>>, <<"w", 119>>, <<"x", 120>>,
    <<"y", 121>>, <<"z", 122>>, <<"{", 123>>, <<"|", 124>>, <<"}", 125>>, <<"~", 126>>
    >>

Chars == {CodeTable[i][1] : i \in DOMAIN CodeTable}

\* ord(c): the code point, which is also the UTF-8 byte DynamoDB orders by.
CodePoint == [c \in Chars |-> CodeTable[CHOOSE i \in DOMAIN CodeTable : CodeTable[i][1] = c][2]]

Chr(n) == CHOOSE c \in Chars : CodePoint[c] = n

\* Python's None, and a JSON number standing where a string is expected.
None == <<"None">>
Number == <<"<number>">>

IsStr(v) == \A i \in DOMAIN v : v[i] \in Chars

IsDigit(c) == CodePoint[c] \in 48..57
IsUpper(c) == CodePoint[c] \in 65..90
IsLetter(c) == IsUpper(c) \/ CodePoint[c] \in 97..122
IsWordChar(c) == IsLetter(c) \/ IsDigit(c) \/ c = "-"

Min(a, b) == IF a <= b THEN a ELSE b

\* str.lower()
lower(s) == [i \in 1..Len(s) |-> IF IsUpper(s[i]) THEN Chr(CodePoint[s[i]] + 32) ELSE s[i]]

\* f"{v}": None is formatted as the text None.
Str(v) == IF v = None THEN <<"N", "o", "n", "e">> ELSE v

\* s[:n]
Prefix(s, n) == SubSeq(s, 1, Min(n, Len(s)))

\* a < b in the order DynamoDB sorts string keys by (and Python compares str by).
StrLess(a, b) ==
    LET n == Min(Len(a), Len(b))
        diff == {i \in 1..n : a[i] # b[i]}
    IN  IF diff = {} THEN Len(a) < Len(b)
        ELSE LET k == CHOOSE i \in diff : \A j \in diff : i <= j
             IN  CodePoint[a[k]] < CodePoint[b[k]]

StrLeq(a, b) == a = b \/ StrLess(a, b)

\* s.startswith(p)
StartsWith(s, p) == Len(p) <= Len(s) /\ SubSeq(s, 1, Len(p)) = p

SeqToSet(s) == {s[i] : i \in DOMAIN s}

(***************************************************************************)
(* load_data.py: helpers.                                                  *)
(***************************************************************************)
STOPWORDS == {
    <<"t", "h", "e">>,
    <<"a">>,
    <<"a", "n">>,
    <<"a", "n", "d">>,
    <<"o", "r">>,
    <<"b", "u", "t">>,
    <<"i", "n">>,
    <<"o", "n">>,
    <<"a", "t">>,
    <<"t", "o">>,
    <<"f", "o", "r">>,
    <<"o", "f">>,
    <<"w", "i", "t", "h">>,
    <<"b", "y">>,
    <<"f", "r", "o", "m">>,
    <<"u", "p">>,
    <<"a", "b", "o", "u", "t">>,
    <<"i", "n", "t", "o">>,
    <<"t", "h", "r", "o", "u", "g", "h">>,
    <<"d", "u", "r", "i", "n", "g">>,
    <<"i", "s">>,
    <<"a", "r", "e">>,
    <<"w", "a", "s">>,
    <<"w", "e", "r", "e">>,
    <<"b", "e">>,
    <<"b", "e", "e", "n">>,
    <<"b", "e", "i", "n", "g">>,
    <<"h", "a", "v", "e">>,
    <<"h", "a", "s">>,
    <<"h", "a", "d">>,
    <<"d", "o">>,
    <<"d", "o", "e", "s">>,
    <<"d", "i", "d">>,
    <<"w", "i", "l", "l">>,
    <<"w", "o", "u", "l", "d">>,
    <<"c", "o", "u", "l", "d">>,
    <<"s", "h", "o", "u", "l", "d">>,
    <<"m", "a", "y">>,
    <<"m", "i", "g", "h", "t">>,
    <<"c", "a", "n">>,
    <<"t", "h", "i", "s">>,
    <<"t", "h", "a", "t">>,
    <<"t", "h", "e", "s", "e">>,
    <<"t", "h", "o", "s", "e">>,
    <<"w", "e">>,
    <<"o", "u", "r">>,
    <<"u", "s", "e">>,
    <<"u", "s", "i", "n", "g">>,
    <<"b", "a", "s", "e", "d">>,
    <<"a", "p", "p", "r", "o", "a", "c", "h">>,
    <<"m", "e", "t", "h", "o", "d">>,
    <<"p", "a", "p", "e", "r">>,
    <<"p", "r", "o", "p", "o", "s", "e">>,
    <<"p", "r", "o", "p", "o", "s", "e", "d">>,
    <<"s", "h", "o", "w">>
    }

\* s.replace('Z', '')
RECURSIVE RemoveZ(_)
RemoveZ(s) ==
    IF s = <<>> THEN <<>>
    ELSE IF Head(s) = "Z" THEN RemoveZ(Tail(s))
    ELSE <<Head(s)>> \o RemoveZ(Tail(s))

\* int(s) of a run of digits
RECURSIVE DigitsVal(_)
DigitsVal(s) ==
    IF s = <<>> THEN 0
    ELSE 10 * DigitsVal(SubSeq(s, 1, Len(s) - 1)) + (CodePoint[s[Len(s)]] - 48)

AllDigits(s) == \A i \in DOMAIN s : IsDigit(s[i])

\* "%0*d"
RECURSIVE Pad(_, _)
Pad(n, width) ==
    IF width = 0 THEN <<>> ELSE Pad(n \div 10, width - 1) \o <<Chr(48 + (n % 10))>>

IsLeap(y) == (y % 4 = 0 /\ y % 100 # 0) \/ y % 400 = 0

DaysIn(y, m) ==
    IF m = 2 THEN (IF IsLeap(y) THEN 29 ELSE 28)
    ELSE IF m \in {4, 6, 9, 11} THEN 30 ELSE 31

\* The time part fromisoformat accepts after the separator: HH, HH:MM or HH:MM:SS.
TimeOK(t) ==
    \/ Len(t) = 2 /\ AllDigits(t) /\ DigitsVal(t) <= 23
    \/ /\ Len(t) = 5 /\ t[3] = ":"
       /\ AllDigits(SubSeq(t, 1, 2)) /\ DigitsVal(SubSeq(t, 1, 2)) <= 23
       /\ AllDigits(SubSeq(t, 4, 5)) /\ DigitsVal(SubSeq(t, 4, 5)) <= 59
    \/ /\ Len(t) = 8 /\ t[3] = ":" /\ t[6] = ":"
       /\ AllDigits(SubSeq(t, 1, 2)) /\ DigitsVal(SubSeq(t, 1, 2)) <= 23
       /\ AllDigits(SubSeq(t, 4, 5)) /\ DigitsVal(SubSeq(t, 4, 5)) <= 59
       /\ AllDigits(SubSeq(t, 7, 8)) /\ DigitsVal(SubSeq(t, 7, 8)) <= 59

\* datetime.fromisoformat(s): <<TRUE, y, m, d>> when s parses (YYYY-MM-DD or
\* YYYYMMDD, then nothing or one separator character and a time), <<FALSE>> when
\* it raises ValueError.
fromisoformat(s) ==
    LET ext == Len(s) >= 10 /\ s[5] = "-" /\ s[8] = "-"
        n == IF ext THEN 10 ELSE 8
        ys == SubSeq(s, 1, 4)
        ms == IF ext THEN SubSeq(s, 6, 7) ELSE SubSeq(s, 5, 6)
        ds == IF ext THEN SubSeq(s, 9, 10) ELSE SubSeq(s, 7, 8)
        rest == SubSeq(s, n + 1, Len(s))
    IN  IF /\ Len(s) >= n
           /\ AllDigits(ys) /\ AllDigits(ms) /\ AllDigits(ds)
           /\ DigitsVal(ys) >= 1
           /\ DigitsVal(ms) \in 1..12
           /\ DigitsVal(ds) \in 1..DaysIn(DigitsVal(ys), DigitsVal(ms))
           /\ (rest = <<>> \/ (Len(rest) >= 2 /\ TimeOK(Tail(rest))))
        THEN <<TRUE, DigitsVal(ys), DigitsVal(ms), DigitsVal(ds)>>
        ELSE <<FALSE>>

\* date.isoformat()
isoformat(y, m, d) == Pad(y, 4) \o <<"-">> \o Pad(m, 2) \o <<"-">> \o Pad(d, 2)

\* iso_date raises when date_str is not a string: len() raises TypeError inside the
\* try, and the slice in the except clause raises it again.
iso_date_raises(date_str) == ~IsStr(date_str)

\* the value iso_date returns once the string has gone to fromisoformat: the parsed
\* date, or on ValueError the first 10 characters of the raw string
date_or_prefix(r, date_str) ==
    IF r[1] THEN isoformat(r[2], r[3], r[4]) ELSE Prefix(date_str, 10)

\* the published string taken for the date as it stands
iso_date_as_given(date_str) == date_str

iso_date(date_str) ==
    IF Len(date_str) = 10 /\ date_str[5] = "-" /\ date_str[8] = "-" THEN date_str
    ELSE date_or_prefix(fromisoformat(RemoveZ(date_str)), date_str)

\* WORD_RE.findall(text) from position i: the leftmost-first, non-overlapping matches
\* of [A-Za-z][A-Za-z0-9\-]+ .
RECURSIVE findall(_, _)
findall(text, i) ==
    IF i > Len(text) THEN <<>>
    ELSE IF IsLetter(text[i]) /\ i < Len(text) /\ IsWordChar(text[i + 1])
    THEN LET ends == {j \in (i + 1)..Len(text) : \A k \in (i + 1)..j : IsWordChar(text[k])}
             e == CHOOSE j \in ends : \A k \in ends : k <= j
         IN  <<SubSeq(text, i, e)>> \o findall(text, e + 1)
    ELSE findall(text, i + 1)

\* The distinct elements of s in first-occurrence order (a Counter's key order).
RECURSIVE Distinct(_)
Distinct(s) ==
    IF s = <<>> THEN <<>>
    ELSE LET init == Distinct(SubSeq(s, 1, Len(s) - 1))
             x == s[Len(s)]
         IN  IF x \in SeqToSet(init) THEN init ELSE Append(init, x)

Count(s, x) == Cardinality({i \in DOMAIN s : s[i] = x})

\* Counter(words).most_common(topk): by count, descending; equal counts keep the
\* order of first occurrence.
RECURSIVE most_common(_, _, _)
most_common(keys, words, topk) ==
    IF topk = 0 \/ keys = <<>> THEN <<>>
    ELSE LET best == CHOOSE i \in DOMAIN keys :
                        /\ \A j \in DOMAIN keys : Count(words, keys[j]) <= Count(words, keys[i])
                        /\ \A j \in 1..(i - 1) : Count(words, keys[j]) < Count(words, keys[i])
             left == [j \in 1..(Len(keys) - 1) |-> IF j < best THEN keys[j] ELSE keys[j + 1]]
         IN  <<keys[best]>> \o most_common(left, words, topk - 1)

lower_all(ws) == [i \in DOMAIN ws |-> lower(ws[i])]

\* the filter without its stop-word test
keep_long_words(w) == Len(w) >= 3

KeepWord(w) == w \notin STOPWORDS /\ Len(w) >= 3

\* Counter(words).most_common(topk)
top_words(words, topk) == most_common(Distinct(words), words, topk)

tokenize_keywords(text, topk) ==
    IF text = <<>> THEN <<>>
    ELSE top_words(SelectSeq(lower_all(findall(text, 1)), KeepWord), topk)

(***************************************************************************)
(* load_data.py: build_items_for_paper.                                    *)
(***************************************************************************)
\* p.get(k)
Get(p, k) == IF k \in DOMAIN p THEN p[k] ELSE None

\* p.get(k) or d : a missing key, an empty string and an empty list all give d
GetOr(p, k, d) == IF k \in DOMAIN p /\ p[k] # <<>> THEN p[k] ELSE d

\* the keyword list the items are built from: the paper's own list unless it is
\* missing or empty, then the abstract's top ten tokens
keywords_of(p) ==
    IF "keywords" \in DOMAIN p /\ p.keywords # <<>> THEN p.keywords
    ELSE tokenize_keywords(GetOr(p, "abstract", <<>>), 10)

\* the dict base_attrs, given published_iso and the keyword list
attrs_of(p, published_iso, keywords) ==
    [arxiv_id |-> Get(p, "arxiv_id"),
     title |-> Get(p, "title"),
     authors |-> GetOr(p, "authors", <<>>),
     abstract |-> GetOr(p, "abstract", <<>>),
     categories |-> GetOr(p, "categories", <<>>),
     keywords |-> lower_all(keywords),
     published |-> IF published_iso # <<>> THEN published_iso
                   ELSE iso_date(published_iso) \o <<"T", "0", "0", ":", "0", "0", ":", "0", "0", "Z">>]

base_attrs(p) == attrs_of(p, GetOr(p, "published", <<>>), keywords_of(p))

\* the sort key with the date and the id run together, no separator between them
date_id_key_unseparated(p) ==
    iso_date(GetOr(p, "published", <<>>)) \o Str(Get(p, "arxiv_id"))

\* f"{date_only}#{arxiv_id}"
date_id_key(p) ==
    iso_date(GetOr(p, "published", <<>>)) \o <<"#">> \o Str(Get(p, "arxiv_id"))

\* category items that carry the payload without the paper's title
category_items_untitled(b, sk) ==
    [i \in DOMAIN b.categories |->
        [PK |-> <<"C", "A", "T", "E", "G", "O", "R", "Y", "#">> \o b.categories[i], SK |-> sk] @@ [b EXCEPT !.title = None]]

\* 1) category items, b the base attributes and sk the date#id sort key
category_items(b, sk) ==
    [i \in DOMAIN b.categories |->
        [PK |-> <<"C", "A", "T", "E", "G", "O", "R", "Y", "#">> \o b.categories[i], SK |-> sk] @@ b]

\* the canonical item written without the attributes PaperIdIndex is keyed by
paper_item_unindexed(b) ==
    [PK |-> <<"P", "A", "P", "E", "R", "#">> \o Str(b.arxiv_id), SK |-> <<"A">>] @@ b

\* 2) the canonical paper item
paper_item(b) ==
    [PK |-> <<"P", "A", "P", "E", "R", "#">> \o Str(b.arxiv_id), SK |-> <<"A">>,
     GSI2PK |-> <<"P", "A", "P", "E", "R", "#">> \o Str(b.arxiv_id), GSI2SK |-> <<"A">>] @@ b

\* 3) author items
author_items(b, sk) ==
    [i \in DOMAIN b.authors |->
        [PK |-> <<"A", "U", "T", "H", "O", "R", "#">> \o b.authors[i], SK |-> sk,
         GSI1PK |-> <<"A", "U", "T", "H", "O", "R", "#">> \o b.authors[i], GSI1SK |-> sk] @@ b]

\* 4) keyword items
keyword_items(b, sk) ==
    [i \in DOMAIN b.keywords |->
        [PK |-> <<"K", "E", "Y", "W", "O", "R", "D", "#">> \o b.keywords[i], SK |-> sk,
         GSI3PK |-> <<"K", "E", "Y", "W", "O", "R", "D", "#">> \o b.keywords[i], GSI3SK |-> sk] @@ b]

\* the list `items`, in the order the four loops append to it
items_of(b, sk) ==
    category_items(b, sk) \o <<paper_item(b)>> \o author_items(b, sk)
        \o keyword_items(b, sk)

\* build_items_for_paper raises (a TypeError out of iso_date) when published is
\* not a string; nothing in it checks the paper's id.
build_raises(p) == iso_date_raises(GetOr(p, "published", <<>>))

\* the list `items` build_items_for_paper returns
build_items_for_paper(p) == items_of(base_attrs(p), date_id_key(p))

breakdown_of(b) ==
    [category |-> Len(b.categories), author |-> Len(b.authors),
     keyword |-> Len(b.keywords), paper |-> 1]

\* the dict `breakdown` build_items_for_paper returns
breakdown(p) == breakdown_of(base_attrs(p))

\* the payload every item of a paper carries: the item without its key attributes
Payload(it) ==
    [k \in {"arxiv_id", "title", "authors", "abstract", "categories", "keywords",
            "published"} |-> it[k]]

(***************************************************************************)
(* load_data.py: put_batch, through boto3's batch writer with              *)
(* overwrite_by_pkeys=['PK', 'SK'].                                        *)
(***************************************************************************)
\* the writer's flush_amount: the most items one BatchWriteItem call may carry
flush_amount == 25

SameKey(a, b) == a.PK = b.PK /\ a.SK = b.SK

\* put_item of a writer opened without overwrite_by_pkeys: the request is appended
buffer_put_all(buffer, it) == Append(buffer, it)

\* put_item under overwrite_by_pkeys: a buffered request with the same (PK, SK) is
\* dropped, the new one is appended.
buffer_put(buffer, it) ==
    LET Other(x) == ~SameKey(x, it)
    IN  Append(SelectSeq(buffer, Other), it)

\* the chunks leaving the writer on exit: whatever is buffered, flush_amount at a time
RECURSIVE drain(_)
drain(buffer) ==
    IF buffer = <<>> THEN <<>>
    ELSE <<Prefix(buffer, flush_amount)>>
         \o drain(SubSeq(buffer, flush_amount + 1, Len(buffer)))

\* the store-write calls of `for it in items: bw.put_item(Item=it)` and the exit of
\* the with block, in order: the buffer is flushed as soon as it holds flush_amount
\* requests.
RECURSIVE writer_calls(_, _)
\* a writer that flushes one request late, and then all it holds
after_put_late(items, b) ==
    IF Len(b) > flush_amount
    THEN <<b>> \o writer_calls(items, <<>>)
    ELSE writer_calls(items, b)

\* after put_item has left b in the buffer: flush when it holds flush_amount requests
after_put(items, b) ==
    IF Len(b) >= flush_amount
    THEN <<Prefix(b, flush_amount)>>
         \o writer_calls(items, SubSeq(b, flush_amount + 1, Len(b)))
    ELSE writer_calls(items, b)

writer_calls(items, buffer) ==
    IF items = <<>> THEN drain(buffer)
    ELSE after_put(Tail(items), buffer_put(buffer, Head(items)))

HasDupKeys(chunk) ==
    \E i, j \in DOMAIN chunk : i # j /\ SameKey(chunk[i], chunk[j])

\* a store that keeps the stored item next to the new one
batch_write_item_keep(tbl, chunk) == tbl \cup {chunk[i] : i \in DOMAIN chunk}

\* BatchWriteItem: every item replaces the stored item with its (PK, SK), if any.
batch_write_item(tbl, chunk) ==
    {x \in tbl : \A i \in DOMAIN chunk : ~SameKey(x, chunk[i])}
        \cup {chunk[i] : i \in DOMAIN chunk}

RECURSIVE write_chunks(_, _)
write_chunks(tbl, chunks) ==
    IF chunks = <<>> THEN tbl
    ELSE write_chunks(batch_write_item(tbl, Head(chunks)), Tail(chunks))

\* how many of the calls are carried out when the store accepts the first fail_at
\* of them: it also refuses a call that names one key twice
calls_done(chunks, fail_at) ==
    CHOOSE k \in 0..Len(chunks) :
        /\ k <= fail_at /\ \A i \in 1..k : ~HasDupKeys(chunks[i])
        /\ (k = Len(chunks) \/ k = fail_at \/ HasDupKeys(chunks[k + 1]))

send_calls(tbl, chunks, done) ==
    [table |-> write_chunks(tbl, SubSeq(chunks, 1, done)),
     calls |-> [i \in 1..Min(done + 1, Len(chunks)) |-> Len(chunks[i])],
     raised |-> done < Len(chunks)]

send_chunks(tbl, chunks, fail_at) == send_calls(tbl, chunks, calls_done(chunks, fail_at))

\* put_batch(table, items) when the store accepts the first fail_at calls and the
\* next one, if any, raises ClientError (throttling that outlasts the client's
\* retries).  Nothing in put_batch catches the error: the with block ends and the
\* error leaves put_batch, the calls made so far stay written.
put_batch(tbl, items, fail_at) == send_chunks(tbl, writer_calls(items, <<>>), fail_at)

(***************************************************************************)
(* The papers the input file may hold.                                     *)
(***************************************************************************)
\* a paper as HW#1 writes it; its keywords are drawn from the abstract
PaperA ==
    [arxiv_id |-> <<"1">>, title |-> <<"t">>, authors |-> <<<<"a", "l">>>>,
     abstract |-> <<"g", "r", "a", "p", "h", " ", "n", "e", "t", "s", " ", "g", "r", "a", "p", "h">>, categories |-> <<<<"c">>>>,
     published |-> <<"2", "0", "2", "3", "-", "0", "1", "-", "1", "5", "T", "0", "0", ":", "0", "0", ":", "0", "0", "Z">>]

\* the same paper again, with another title
PaperA2 == [PaperA EXCEPT !.title = <<"u">>]

\* a date literal, an author listed twice, two keywords equal but for their case
PaperB ==
    [arxiv_id |-> <<"2">>, title |-> <<"t">>, authors |-> <<<<"a", "l">>, <<"a", "l">>>>,
     categories |-> <<<<"c">>>>, keywords |-> <<<<"A", "b">>, <<"a", "b">>>>,
     published |-> <<"2", "0", "2", "3", "-", "0", "1", "-", "3", "1">>]

\* an id that sorts after the letter z
PaperZ ==
    [arxiv_id |-> <<"~", "3">>, title |-> <<"t">>, categories |-> <<<<"c">>>>,
     published |-> <<"2", "0", "2", "3", "-", "0", "1", "-", "3", "1">>]

\* a record without arxiv_id
PaperNoId == [title |-> <<"t">>, categories |-> <<<<"c">>>>, published |-> <<"2", "0", "2", "3", "-", "0", "1", "-", "0", "1">>]

\* a record whose published is a JSON number
PaperBad ==
    [arxiv_id |-> <<"5">>, title |-> <<"t">>, categories |-> <<<<"c">>>>, published |-> Number]

\* a paper of 24 items: 2 categories, 1 author, 20 keywords and itself
PaperBig ==
    [arxiv_id |-> <<"4">>, title |-> <<"t">>, authors |-> <<<<"b", "o">>>>,
     categories |-> <<<<"c">>, <<"d">>>>,
     keywords |-> [i \in 1..20 |-> <<"k", Chr(96 + i)>>],
     published |-> <<"2", "0", "2", "3", "-", "0", "2", "-", "0", "1", "T", "1", "0", ":", "3", "0", ":", "0", "0", "Z">>]

\* a published value that is no date
PaperOdd == [arxiv_id |-> <<"6">>, title |-> <<"t">>, categories |-> <<<<"c">>>>, published |-> <<"2", "0", "2", "3">>]

\* the paper of id 1 as a later dump has it: moved to another category
PaperA3 == [PaperA EXCEPT !.categories = <<<<"e">>>>]

\* a later paper that shares a keyword with PaperA and one with PaperB
PaperG ==
    [arxiv_id |-> <<"7">>, title |-> <<"t">>, categories |-> <<<<"c">>>>,
     keywords |-> <<<<"G", "R", "A", "P", "H">>, <<"a", "B">>>>, published |-> <<"2", "0", "2", "3", "-", "0", "3", "-", "0", "1">>]

PaperSet == {PaperA, PaperA2, PaperB, PaperZ, PaperNoId, PaperBad, PaperBig, PaperOdd}

(***************************************************************************)
(* load_data.py: main.                                                     *)
(***************************************************************************)
BATCH_FLUSH == 24

ZeroBreakdown == [category |-> 0, author |-> 0, keyword |-> 0, paper |-> 0]

\* Counter.update(bkd)
counter_update(c, bkd) == [k \in DOMAIN c |-> c[k] + bkd[k]]

\* python load_data.py papers.json table: the table exists (ensure_table), the
\* counters are zero and the list `batch` is empty.
StartRun ==
    /\ pc \in {"idle", "done", "aborted"}
    /\ runs < MaxRuns
    /\ runs' = runs + 1
    /\ pc' = "loop"
    /\ fault' = "none"
    /\ batch' = <<>>
    /\ total_items' = 0
    /\ total_breakdown' = ZeroBreakdown
    /\ calls' = <<>>
    /\ resp' = <<>>
    /\ UNCHANGED <<table, ingested, clean>>

\* the uncaught exception ends the process: main() has no try, so nothing that is
\* still in `batch` is written and no summary is printed
Abort(why) ==
    /\ pc' = "aborted"
    /\ fault' = why
    /\ clean' = FALSE

\* the outcome of a put_batch call, taken up by main(): nothing there catches the
\* error a failed call raises
AfterPut(r) ==
    /\ table' = r.table
    /\ calls' = r.calls
    /\ IF r.raised THEN Abort("put_batch") ELSE UNCHANGED <<fault, clean>>

\* one turn of `for p in papers:` (lines 226-233)
LoopBody(p) ==
    /\ pc = "loop"
    /\ Len(ingested) < MaxPapers
    /\ ingested' = Append(ingested, p)
    /\ UNCHANGED <<runs, resp>>
    /\ IF build_raises(p)
       THEN /\ Abort("build")
            /\ UNCHANGED <<table, batch, total_items, total_breakdown, calls>>
       ELSE \E items \in {build_items_for_paper(p)} :
            \E b \in {batch \o items} :
                /\ total_items' = total_items + Len(items)
                /\ total_breakdown' = counter_update(total_breakdown, breakdown(p))
                /\ IF Len(b) >= BATCH_FLUSH
                   THEN \E fail_at \in 0..Len(writer_calls(b, <<>>)) :
                        \E r \in {put_batch(table, b, fail_at)} :
                            /\ AfterPut(r)
                            /\ IF r.raised
                               THEN batch' = b
                               ELSE batch' = <<>> /\ UNCHANGED pc
                   ELSE /\ batch' = b
                        /\ UNCHANGED <<table, calls, pc, fault, clean>>

\* the input is exhausted: `if batch: put_batch(table, batch)` and the summary
\* (lines 235-248)
Finish ==
    /\ pc = "loop"
    /\ UNCHANGED <<ingested, runs, resp, total_items, total_breakdown, batch>>
    /\ IF batch # <<>>
       THEN \E fail_at \in 0..Len(writer_calls(batch, <<>>)) :
            \E r \in {put_batch(table, batch, fail_at)} :
                /\ AfterPut(r)
                /\ IF r.raised THEN TRUE ELSE pc' = "done"
       ELSE /\ pc' = "done"
            /\ UNCHANGED <<table, calls, fault, clean>>

(***************************************************************************)
(* The store's Query: one partition of the table or of an index, in sort   *)
(* key order.                                                              *)
(***************************************************************************)
\* the items of one partition; an index holds the items that carry its key attributes
partition(tbl, pk_attr, sk_attr, pk) ==
    {it \in tbl : pk_attr \in DOMAIN it /\ sk_attr \in DOMAIN it /\ it[pk_attr] = pk}

\* Key(sk_attr).between(lo, hi), both ends included
between(items, sk_attr, lo, hi) ==
    {it \in items : StrLeq(lo, it[sk_attr]) /\ StrLeq(it[sk_attr], hi)}

RECURSIVE ascending(_, _)
first_then_rest(items, sk_attr, x) == <<x>> \o ascending(items \ {x}, sk_attr)

\* the items by ascending sort key
ascending(items, sk_attr) ==
    IF items = {} THEN <<>>
    ELSE first_then_rest(items, sk_attr,
            CHOOSE x \in items : \A y \in items : StrLeq(x[sk_attr], y[sk_attr]))

Reverse(s) == [i \in 1..Len(s) |-> s[Len(s) + 1 - i]]

\* ScanIndexForward
scan(items, sk_attr, forward) ==
    IF forward THEN ascending(items, sk_attr) ELSE Reverse(ascending(items, sk_attr))

(***************************************************************************)
(* query_papers.py: the five queries, each the payload it prints (the      *)
(* elapsed time left out).                                                 *)
(***************************************************************************)
payload_of(query_type, parameters, items) ==
    [query_type |-> query_type, parameters |-> parameters, results |-> items,
     count |-> Len(items)]

\* the query left at the store's default scan direction, oldest first
query_recent_ascending(tbl, category, limit) ==
    payload_of("recent_in_category", [category |-> category, limit |-> limit],
        Prefix(scan(partition(tbl, "PK", "SK", <<"C", "A", "T", "E", "G", "O", "R", "Y", "#">> \o category), "SK", TRUE),
               limit))

query_recent_in_category(tbl, category, limit) ==
    payload_of("recent_in_category", [category |-> category, limit |-> limit],
        Prefix(scan(partition(tbl, "PK", "SK", <<"C", "A", "T", "E", "G", "O", "R", "Y", "#">> \o category), "SK", FALSE),
               limit))

query_papers_by_author(tbl, author_name) ==
    payload_of("papers_by_author", [author |-> author_name],
        scan(partition(tbl, "GSI1PK", "GSI1SK", <<"A", "U", "T", "H", "O", "R", "#">> \o author_name), "GSI1SK", TRUE))

\* results is [items[0]] when the query finds something, [] otherwise
first_or_nothing(items) == IF items # <<>> THEN <<items[1]>> ELSE <<>>

get_paper_by_id(tbl, arxiv_id) ==
    payload_of("get_paper_by_id", [arxiv_id |-> arxiv_id],
        first_or_nothing(
            scan(partition(tbl, "GSI2PK", "GSI2SK", <<"P", "A", "P", "E", "R", "#">> \o arxiv_id), "GSI2SK", TRUE)))

query_papers_in_date_range(tbl, category, start_date, end_date) ==
    payload_of("papers_in_date_range",
        [category |-> category, start |-> start_date, end |-> end_date],
        scan(between(partition(tbl, "PK", "SK", <<"C", "A", "T", "E", "G", "O", "R", "Y", "#">> \o category), "SK",
                     start_date \o <<"#">>, end_date \o <<"#", "z", "z", "z", "z", "z", "z", "z">>),
             "SK", TRUE))

\* the lookup with the keyword as typed, not lower-cased
query_papers_by_keyword_as_typed(tbl, keyword, limit) ==
    payload_of("papers_by_keyword", [keyword |-> keyword, limit |-> limit],
        Prefix(scan(partition(tbl, "GSI3PK", "GSI3SK", <<"K", "E", "Y", "W", "O", "R", "D", "#">> \o keyword),
                    "GSI3SK", FALSE),
               limit))

query_papers_by_keyword(tbl, keyword, limit) ==
    payload_of("papers_by_keyword", [keyword |-> keyword, limit |-> limit],
        Prefix(scan(partition(tbl, "GSI3PK", "GSI3SK", <<"K", "E", "Y", "W", "O", "R", "D", "#">> \o lower(keyword)),
                    "GSI3SK", FALSE),
               limit))

\* query_papers.py main(): the sub-command chosen on the command line
run_query(tbl, q) ==
    CASE q.cmd = "recent" -> query_recent_in_category(tbl, q.category, q.limit)
      [] q.cmd = "author" -> query_papers_by_author(tbl, q.author_name)
      [] q.cmd = "get" -> get_paper_by_id(tbl, q.arxiv_id)
      [] q.cmd = "daterange" ->
            query_papers_in_date_range(tbl, q.category, q.start_date, q.end_date)
      [] q.cmd = "keyword" -> query_papers_by_keyword(tbl, q.keyword, q.limit)

(***************************************************************************)
(* api_server.py: Handler.do_GET.                                          *)
(***************************************************************************)
\* path.rstrip("/")
RECURSIVE rstrip_slash(_)
rstrip_slash(s) ==
    IF s # <<>> /\ s[Len(s)] = "/" THEN rstrip_slash(SubSeq(s, 1, Len(s) - 1)) ELSE s

\* path.count("/")
count_slash(s) == Cardinality({i \in DOMAIN s : s[i] = "/"})

\* path.split(prefix, 1)[1] for a path that starts with prefix
after_prefix(s, prefix) == SubSeq(s, Len(prefix) + 1, Len(s))

IsHex(c) == IsDigit(c) \/ CodePoint[c] \in 65..70 \/ CodePoint[c] \in 97..102

HexVal(c) ==
    IF IsDigit(c) THEN CodePoint[c] - 48
    ELSE IF IsUpper(c) THEN CodePoint[c] - 55 ELSE CodePoint[c] - 87

\* urllib.parse.unquote: %xx becomes the character of that code
RECURSIVE unquote(_)
unquote(s) ==
    IF s = <<>> THEN <<>>
    ELSE IF /\ s[1] = "%" /\ Len(s) >= 3 /\ IsHex(s[2]) /\ IsHex(s[3])
            /\ \E c \in Chars : CodePoint[c] = 16 * HexVal(s[2]) + HexVal(s[3])
    THEN <<Chr(16 * HexVal(s[2]) + HexVal(s[3]))>> \o unquote(SubSeq(s, 4, Len(s)))
    ELSE <<s[1]>> \o unquote(Tail(s))

\* (qs.get(name) or [default])[0]; parse_qs leaves blank values out
param(qs, name, default) == IF name \in DOMAIN qs THEN qs[name] ELSE default

\* int(s) succeeds
int_ok(s) == s # <<>> /\ AllDigits(s)

\* json_response(self, code, payload)
json_response(code, payload) == [code |-> code, payload |-> payload]

\* table().query(..., Limit=limit) raises ClientError unless limit >= 1
papers_body(first, items) == first @@ [papers |-> items, count |-> Len(items)]

recent_route(tbl, category, limit_str) ==
    IF ~int_ok(limit_str) THEN json_response(500, [error |-> "server error"])
    ELSE IF category = <<>> THEN json_response(400, [error |-> "missing category"])
    ELSE IF DigitsVal(limit_str) < 1 THEN json_response(500, [error |-> "server error"])
    ELSE json_response(200, papers_body([category |-> category],
            Prefix(scan(partition(tbl, "PK", "SK", <<"C", "A", "T", "E", "G", "O", "R", "Y", "#">> \o category), "SK", FALSE),
                   DigitsVal(limit_str))))

author_route(tbl, author_name) ==
    json_response(200, papers_body([author |-> author_name],
        scan(partition(tbl, "GSI1PK", "GSI1SK", <<"A", "U", "T", "H", "O", "R", "#">> \o author_name), "GSI1SK", TRUE)))

keyword_route(tbl, keyword, limit_str) ==
    IF ~int_ok(limit_str) \/ DigitsVal(limit_str) < 1
    THEN json_response(500, [error |-> "server error"])
    ELSE json_response(200, papers_body([keyword |-> keyword],
            Prefix(scan(partition(tbl, "GSI3PK", "GSI3SK", <<"K", "E", "Y", "W", "O", "R", "D", "#">> \o keyword),
                        "GSI3SK", FALSE),
                   DigitsVal(limit_str))))

paper_found(items) ==
    IF items = <<>> THEN json_response(404, [error |-> "paper not found"])
    ELSE json_response(200, [paper |-> items[1]])

paper_route(tbl, arxiv_id) ==
    paper_found(scan(partition(tbl, "GSI2PK", "GSI2SK", <<"P", "A", "P", "E", "R", "#">> \o arxiv_id),
                     "GSI2SK", TRUE))

search_route(tbl, category, start, end) ==
    IF category = <<>> \/ start = <<>> \/ end = <<>>
    THEN json_response(400, [error |-> "missing category/start/end"])
    ELSE json_response(200,
            papers_body([category |-> category, start |-> start, end |-> end],
                scan(between(partition(tbl, "PK", "SK", <<"C", "A", "T", "E", "G", "O", "R", "Y", "#">> \o category), "SK",
                             start \o <<"#">>, end \o <<"#", "z", "z", "z", "z", "z", "z", "z">>),
                     "SK", TRUE)))

\* the chain of `if path ...:` tests, in the order of the source
route(tbl, path, qs) ==
    IF path = <<"/", "p", "a", "p", "e", "r", "s", "/", "r", "e", "c", "e", "n", "t">>
    THEN recent_route(tbl, param(qs, "category", <<>>), param(qs, "limit", <<"2", "0">>))
    ELSE IF StartsWith(path, <<"/", "p", "a", "p", "e", "r", "s", "/", "a", "u", "t", "h", "o", "r", "/">>)
    THEN author_route(tbl, unquote(after_prefix(path, <<"/", "p", "a", "p", "e", "r", "s", "/", "a", "u", "t", "h", "o", "r", "/">>)))
    ELSE IF StartsWith(path, <<"/", "p", "a", "p", "e", "r", "s", "/", "k", "e", "y", "w", "o", "r", "d", "/">>)
    THEN keyword_route(tbl, lower(unquote(after_prefix(path, <<"/", "p", "a", "p", "e", "r", "s", "/", "k", "e", "y", "w", "o", "r", "d", "/">>))),
                       param(qs, "limit", <<"2", "0">>))
    ELSE IF StartsWith(path, <<"/", "p", "a", "p", "e", "r", "s", "/">>) /\ count_slash(path) = 2
    THEN paper_route(tbl, unquote(after_prefix(path, <<"/", "p", "a", "p", "e", "r", "s", "/">>)))
    ELSE IF path = <<"/", "p", "a", "p", "e", "r", "s", "/", "s", "e", "a", "r", "c", "h">>
    THEN search_route(tbl, param(qs, "category", <<>>), param(qs, "start", <<>>),
                      param(qs, "end", <<>>))
    ELSE json_response(404, [error |-> "not found"])

\* do_GET on a request whose URL has the given path and query parameters
do_GET(tbl, req) == route(tbl, rstrip_slash(req.path), req.qs)

(***************************************************************************)
(* The requests the read side is asked.                                    *)
(***************************************************************************)
Ids == {<<"1">>, <<"2">>, <<"~", "3">>, <<"4">>, <<"9">>}

Queries ==
    {[cmd |-> "recent", category |-> <<"c">>, limit |-> n] : n \in {1, 20}}
    \cup {[cmd |-> "author", author_name |-> <<"a", "l">>]}
    \cup {[cmd |-> "get", arxiv_id |-> id] : id \in Ids}
    \cup {[cmd |-> "daterange", category |-> <<"c">>, start_date |-> <<"2", "0", "2", "3", "-", "0", "1", "-", "0", "1">>,
           end_date |-> <<"2", "0", "2", "3", "-", "0", "1", "-", "3", "1">>]}
    \cup {[cmd |-> "keyword", keyword |-> <<"A", "B">>, limit |-> 20]}

NoParams == [x \in {} |-> <<>>]

SearchParams == [category |-> <<"c">>, start |-> <<"2", "0", "2", "3", "-", "0", "1", "-", "0", "1">>, end |-> <<"2", "0", "2", "3", "-", "0", "1", "-", "3", "1">>]

Requests ==
    {[path |-> <<"/", "p", "a", "p", "e", "r", "s", "/", "r", "e", "c", "e", "n", "t">>, qs |-> [category |-> <<"c">>]],
     [path |-> <<"/", "p", "a", "p", "e", "r", "s", "/", "r", "e", "c", "e", "n", "t", "/">>, qs |-> [category |-> <<"c">>, limit |-> <<"1">>]],
     [path |-> <<"/", "p", "a", "p", "e", "r", "s", "/", "a", "u", "t", "h", "o", "r", "/", "a", "l">>, qs |-> NoParams],
     [path |-> <<"/", "p", "a", "p", "e", "r", "s", "/", "k", "e", "y", "w", "o", "r", "d", "/", "A", "B">>, qs |-> NoParams],
     [path |-> <<"/", "p", "a", "p", "e", "r", "s", "/", "s", "e", "a", "r", "c", "h">>, qs |-> SearchParams],
     [path |-> <<"/", "p", "a", "p", "e", "r", "s">>, qs |-> NoParams]}
    \cup {[path |-> <<"/", "p", "a", "p", "e", "r", "s", "/">> \o id, qs |-> NoParams] : id \in {<<"1">>, <<"%", "7", "E", "3">>, <<"9">>}}

\* python query_papers.py <cmd> ... prints its payload
RunQuery(q) ==
    /\ pc # "loop"
    /\ resp = <<>>
    /\ resp' = [surface |-> "cli", request |-> q, answer |-> run_query(table, q)]
    /\ UNCHANGED <<table, batch, total_items, total_breakdown, pc, fault, ingested, runs,
                   clean, calls>>

\* the server, which handles one request at a time, answers a GET
ServeGET(req) ==
    /\ pc # "loop"
    /\ resp = <<>>
    /\ resp' = [surface |-> "http", request |-> req, answer |-> do_GET(table, req)]
    /\ UNCHANGED <<table, batch, total_items, total_breakdown, pc, fault, ingested, runs,
                   clean, calls>>

\* the answer has been written out; the read side is ready for the next request
Answered ==
    /\ resp # <<>>
    /\ resp' = <<>>
    /\ UNCHANGED <<table, batch, total_items, total_breakdown, pc, fault, ingested, runs,
                   clean, calls>>

(***************************************************************************)
(* put_batch on its own: one call with n items of pairwise distinct keys.  *)
(***************************************************************************)
MaxItems == 51

DistinctItem(i) == [PK |-> <<"P", "A", "P", "E", "R", "#">> \o Pad(i, 2), SK |-> <<"A">>]

\* the caller collects one more item
AddItem ==
    /\ pc = "idle"
    /\ Len(batch) < MaxItems
    /\ batch' = Append(batch, DistinctItem(Len(batch) + 1))
    /\ UNCHANGED <<table, total_items, total_breakdown, pc, fault, ingested, runs, clean,
                   calls, resp>>

\* put_batch(table, batch)
PutBatchCall(fail_at) ==
    /\ pc = "idle"
    /\ \E r \in {put_batch(table, batch, fail_at)} :
        /\ table' = r.table
        /\ calls' = r.calls
        /\ fault' = IF r.raised THEN "put_batch" ELSE "none"
        /\ pc' = IF r.raised THEN "aborted" ELSE "done"
    /\ UNCHANGED <<batch, total_items, total_breakdown, ingested, runs, clean, resp>>

(***************************************************************************)
(* The specifications.                                                     *)
(***************************************************************************)
Init ==
    /\ table = {}
    /\ batch = <<>>
    /\ total_items = 0
    /\ total_breakdown = ZeroBreakdown
    /\ pc = "idle"
    /\ fault = "none"
    /\ ingested = <<>>
    /\ runs = 0
    /\ clean = TRUE
    /\ calls = <<>>
    /\ resp = <<>>

Next ==
    \/ StartRun
    \/ \E p \in PaperSet : LoopBody(p)
    \/ Finish
    \/ \E q \in Queries : RunQuery(q)
    \/ \E req \in Requests : ServeGET(req)
    \/ Answered

Spec == Init /\ [][Next]_vars

NextBatch ==
    \/ AddItem
    \/ \E fail_at \in 0..Len(writer_calls(batch, <<>>)) : PutBatchCall(fail_at)

SpecBatch == Init /\ [][NextBatch]_vars

(***************************************************************************)
(* What the claims are stated with.                                        *)
(***************************************************************************)
\* every run so far has ended with its summary
Completed == pc = "done" /\ clean

\* the date part of a <date>#<id> sort key
DateOf(it) == Prefix(it.SK, Len(it.SK) - Len(Str(it.arxiv_id)) - 1)

\* a ten-character date of the calendar
IsDate(d) == Len(d) = 10 /\ d[5] = "-" /\ d[8] = "-" /\ fromisoformat(d)[1]

HasId(p) == "arxiv_id" \in DOMAIN p

\* the last paper taken from the input that has the id of paper number i
IsLatest(i) ==
    \A j \in DOMAIN ingested :
        (j > i /\ HasId(ingested[j])) => ingested[j].arxiv_id # ingested[i].arxiv_id

\* every item the loader has built so far, in the order it was handed to put_batch
RECURSIVE items_built(_)
items_built(ps) ==
    IF ps = <<>> THEN <<>>
    ELSE items_built(SubSeq(ps, 1, Len(ps) - 1))
         \o (IF build_raises(ps[Len(ps)]) THEN <<>> ELSE build_items_for_paper(ps[Len(ps)]))

\* of a list of items, for every (PK, SK) the one written last
last_writes(its) ==
    {its[i] : i \in {k \in DOMAIN its : \A j \in DOMAIN its : (j > k) => ~SameKey(its[j], its[k])}}

\* C1: after completed ingestions, get_paper_by_id(E.arxiv_id) returns exactly one
\* item for every ingested entity E that has an id, and the item's payload is the
\* normalized attributes of E (of the latest E, when an id was ingested again).
C1_GetByIdReturnsTheEntity ==
    Completed =>
        \A i \in DOMAIN ingested :
            HasId(ingested[i]) =>
                \E r \in {get_paper_by_id(table, ingested[i].arxiv_id)} :
                    /\ r.count = 1
                    /\ Len(r.results) = 1
                    /\ IsLatest(i) => Payload(r.results[1]) = base_attrs(ingested[i])

\* C1 witness: an id lookup from the command line found an ingested paper after a
\* run in which that id was ingested twice.
C1_Witness ==
    /\ Completed
    /\ Len(ingested) = 2 /\ ingested[1] = PaperA /\ ingested[2] = PaperA2
    /\ resp # <<>> /\ resp.surface = "cli" /\ resp.request.cmd = "get"
    /\ resp.answer.count = 1
    /\ resp.answer.results[1].title = PaperA2.title

\* the category item of paper p in category c is among the items
HasCategoryItem(items, p, c) ==
    \E k \in DOMAIN items :
        items[k].PK = <<"C", "A", "T", "E", "G", "O", "R", "Y", "#">> \o c /\ items[k].SK = date_id_key(p)

\* newest first: no item is followed by an item of a later date
NewestFirst(items) ==
    \A i, j \in DOMAIN items :
        (i < j /\ IsDate(DateOf(items[i])) /\ IsDate(DateOf(items[j])))
            => ~StrLess(DateOf(items[i]), DateOf(items[j]))

PartitionSize(c) == Cardinality(partition(table, "PK", "SK", <<"C", "A", "T", "E", "G", "O", "R", "Y", "#">> \o c))

C3_ReingestionOverwrites ==
    Completed =>
        /\ \A x, y \in table : SameKey(x, y) => x = y
        /\ table = last_writes(items_built(ingested))

\* C3 witness: the same paper was ingested in two runs, the second time with
\* another title, and the stored items carry the second title.
C3_Witness ==
    /\ Completed
    /\ runs = 2
    /\ Len(ingested) = 2 /\ ingested[1] = PaperA /\ ingested[2] = PaperA2
    /\ \A x \in table : x.title = PaperA2.title
    /\ Cardinality(table) = Len(build_items_for_paper(PaperA))

\* the stored items of category c dated from start to end, both included
InRange(c, start, end) ==
    {it \in partition(table, "PK", "SK", <<"C", "A", "T", "E", "G", "O", "R", "Y", "#">> \o c) :
        StrLeq(start, DateOf(it)) /\ StrLeq(DateOf(it), end)}

\* C4: query_papers_in_date_range(c, start, end) returns exactly the items of
\* partition CATEGORY#c dated from start to end, whatever the id in the sort key.
C4_DateRangeIsExact ==
    Completed =>
        SeqToSet(query_papers_in_date_range(table, <<"c">>, <<"2", "0", "2", "3", "-", "0", "1", "-", "0", "1">>, <<"2", "0", "2", "3", "-", "0", "1", "-", "3", "1">>).results)
            = InRange(<<"c">>, <<"2", "0", "2", "3", "-", "0", "1", "-", "0", "1">>, <<"2", "0", "2", "3", "-", "0", "1", "-", "3", "1">>)

\* C5: every access pattern has an endpoint that runs its query; GET /papers/search
\* with category, start and end runs the date-range query.
C5_EveryPatternHasItsEndpoint ==
    (resp # <<>> /\ resp.surface = "http") =>
        /\ (resp.request.path = <<"/", "p", "a", "p", "e", "r", "s", "/", "r", "e", "c", "e", "n", "t">> /\ DOMAIN resp.request.qs = {"category"})
            => /\ resp.answer.code = 200
               /\ resp.answer.payload.papers =
                    query_recent_in_category(table, resp.request.qs.category, 20).results
        /\ resp.request.path = <<"/", "p", "a", "p", "e", "r", "s", "/", "a", "u", "t", "h", "o", "r", "/", "a", "l">>
            => /\ resp.answer.code = 200
               /\ resp.answer.payload.papers = query_papers_by_author(table, <<"a", "l">>).results
        /\ resp.request.path = <<"/", "p", "a", "p", "e", "r", "s", "/", "k", "e", "y", "w", "o", "r", "d", "/", "A", "B">>
            => /\ resp.answer.code = 200
               /\ resp.answer.payload.papers = query_papers_by_keyword(table, <<"A", "B">>, 20).results
        /\ (resp.request.path = <<"/", "p", "a", "p", "e", "r", "s", "/", "1">> /\ get_paper_by_id(table, <<"1">>).count = 1)
            => /\ resp.answer.code = 200
               /\ resp.answer.payload.paper = get_paper_by_id(table, <<"1">>).results[1]
        /\ resp.request.path = <<"/", "p", "a", "p", "e", "r", "s", "/", "s", "e", "a", "r", "c", "h">>
            => /\ resp.answer.code = 200
               /\ "papers" \in DOMAIN resp.answer.payload
               /\ resp.answer.payload.papers =
                    query_papers_in_date_range(table, resp.request.qs.category,
                        resp.request.qs.start, resp.request.qs.end).results

\* C6: no store-write call of put_batch carries more than 25 items, and n items of
\* pairwise distinct keys leave in ceil(n / 25) calls, all but the last of 25 items.
C6_BatchesOfAtMost25 ==
    /\ \A i \in DOMAIN calls : calls[i] \in 1..25
    /\ pc = "done" =>
        /\ Len(calls) = (Len(batch) + 24) \div 25
        /\ \A i \in 1..(Len(calls) - 1) : calls[i] = 25
        /\ calls # <<>> => calls[Len(calls)] = Len(batch) - 25 * (Len(calls) - 1)

\* C6 witness: 51 items left in calls of 25, 25 and 1.
C6_Witness == Len(batch) = 51 /\ pc = "done" /\ calls = <<25, 25, 1>>

\* C7: a put_batch call that fails never ends the ingestion loop.
C7_BatchFailureNeverAborts == fault = "put_batch" => pc # "aborted"

\* C8: a paper build_items_for_paper raises for is skipped and the loop goes on.
C8_BadRecordIsSkipped == fault = "build" => pc # "aborted"

\* C9: no item built from a paper without an id reaches the batch or the table.
C9_NoItemWithoutId ==
    \A it \in table \cup SeqToSet(batch) :
        /\ it.arxiv_id # None
        /\ it.PK # <<"P", "A", "P", "E", "R", "#", "N", "o", "n", "e">>

\* the id the last request looked up, when it was an id lookup
IsLookup ==
    /\ resp # <<>>
    /\ \/ resp.surface = "cli" /\ resp.request.cmd = "get"
       \/ /\ resp.surface = "http"
          /\ resp.request.path \in {<<"/", "p", "a", "p", "e", "r", "s", "/">> \o id : id \in Ids}

LookupId == IF resp.surface = "cli" THEN resp.request.arxiv_id
            ELSE after_prefix(resp.request.path, <<"/", "p", "a", "p", "e", "r", "s", "/">>)

NeverIngested(id) ==
    \A i \in DOMAIN ingested : Str(Get(ingested[i], "arxiv_id")) # id

\* C10: a lookup of an id that was never ingested is answered as an empty success
\* on both read surfaces.
C10_LookupMissIsEmptySuccess ==
    (IsLookup /\ NeverIngested(LookupId)) =>
        /\ resp.surface = "cli" => resp.answer.count = 0 /\ resp.answer.results = <<>>
        /\ resp.surface = "http" => resp.answer.code = 200

(***************************************************************************)
(* The HTTP surface asked every combination of path and query parameters,  *)
(* over a table loaded from two papers.                                    *)
(***************************************************************************)
ApiPaths ==
    {<<"/", "p", "a", "p", "e", "r", "s", "/", "r", "e", "c", "e", "n", "t">>, <<"/", "p", "a", "p", "e", "r", "s", "/", "r", "e", "c", "e", "n", "t", "/">>, <<"/", "p", "a", "p", "e", "r", "s", "/", "a", "u", "t", "h", "o", "r", "/", "a", "l">>, <<"/", "p", "a", "p", "e", "r", "s", "/", "a", "u", "t", "h", "o", "r", "/">>,
     <<"/", "p", "a", "p", "e", "r", "s", "/", "k", "e", "y", "w", "o", "r", "d", "/", "A", "B">>, <<"/", "p", "a", "p", "e", "r", "s", "/", "s", "e", "a", "r", "c", "h">>, <<"/", "p", "a", "p", "e", "r", "s", "/", "s", "e", "a", "r", "c", "h", "/">>, <<"/", "p", "a", "p", "e", "r", "s">>,
     <<"/", "p", "a", "p", "e", "r", "s", "/", "1">>, <<"/", "p", "a", "p", "e", "r", "s", "/", "9">>, <<"/">>, <<"/", "n", "o", "t", "h", "i", "n", "g", "/", "h", "e", "r", "e">>}

ParamNames == {"category", "start", "end", "limit"}

ParamValue == [category |-> <<"c">>, start |-> <<"2", "0", "2", "3", "-", "0", "1", "-", "0", "1">>, end |-> <<"2", "0", "2", "3", "-", "0", "1", "-", "3", "1">>]

\* parse_qs(parsed.query): every subset of the parameters, limit an integer or not
ApiParams ==
    {[n \in D |-> IF n = "limit" THEN l ELSE ParamValue[n]] :
        D \in SUBSET ParamNames, l \in {<<"1">>, <<"x">>}}

ApiRequests == {[path |-> path, qs |-> qs] : path \in ApiPaths, qs \in ApiParams}

NextAPI ==
    \/ StartRun
    \/ \E p \in {PaperA, PaperB} : LoopBody(p)
    \/ Finish
    \/ \E req \in ApiRequests : ServeGET(req)
    \/ Answered

SpecAPI == Init /\ [][NextAPI]_vars

(***************************************************************************)
(* build_items_for_paper on its own: the items of one paper after another, *)
(* collected in `batch` and counted, with no write to the store.           *)
(***************************************************************************)
MaxBuilt == 2

\* marks a key the input record does not have
Absent == <<"absent">>

Field(name, v) == [k \in (IF v = Absent THEN {} ELSE {name}) |-> v]

BuildPaper(id, published, keywords, abstract, lists) ==
    [arxiv_id |-> id, title |-> <<"t">>]
        @@ Field("published", published) @@ Field("keywords", keywords)
        @@ Field("abstract", abstract)
        @@ Field("authors", IF lists THEN <<<<"c">>>> ELSE Absent)
        @@ Field("categories", IF lists THEN <<<<"c">>, <<"e">>>> ELSE Absent)

BuildIds == {<<"d">>, <<"y", "d">>, <<"y", "#", "d">>}

\* published: missing, no date at all, a year, a timestamp, a compact date, a date
BuildPublished ==
    {Absent, <<"x">>, <<"x", "y">>, <<"x", "#", "y">>, <<"2", "0", "2", "3">>, <<"2", "0", "2", "3", "-", "0", "1", "-", "1", "5", "T", "0", "0", ":", "0", "0", ":", "0", "0", "Z">>, <<"2", "0", "2", "3", "0", "1", "1", "6">>,
     <<"2", "0", "2", "3", "-", "0", "1", "-", "3", "1">>}

BuildPapers ==
    {BuildPaper(id, pub, <<<<"C">>>>, Absent, TRUE) : id \in BuildIds, pub \in BuildPublished}
    \cup {BuildPaper(<<"d">>, <<"2", "0", "2", "3", "-", "0", "1", "-", "3", "1">>, kw, abs, lists) :
            kw \in {Absent, <<>>, <<<<"C">>, <<"c">>>>},
            abs \in {Absent, <<"g", "r", "a", "p", "h", " ", "n", "e", "t", "s", " ", "t", "h", "e", " ", "g", "r", "a", "p", "h">>},
            lists \in BOOLEAN}

\* main(), lines 226-230: the items of one more paper join `batch` and the counters
BuildItems(p) ==
    /\ pc = "idle"
    /\ Len(ingested) < MaxBuilt
    /\ ~build_raises(p)
    /\ ingested' = Append(ingested, p)
    /\ \E items \in {build_items_for_paper(p)} :
        /\ batch' = batch \o items
        /\ total_items' = total_items + Len(items)
    /\ total_breakdown' = counter_update(total_breakdown, breakdown(p))
    /\ UNCHANGED <<table, pc, fault, runs, clean, calls, resp>>

NextBuild == \E p \in BuildPapers : BuildItems(p)

SpecBuild == Init /\ [][NextBuild]_vars

(***************************************************************************)
(* The loader on its own, over input files that also hold a paper whose    *)
(* record changed between two dumps.                                       *)
(***************************************************************************)
LoadPapers == PaperSet \cup {PaperA3}

NextLoad ==
    \/ StartRun
    \/ \E p \in LoadPapers : LoopBody(p)
    \/ Finish

SpecLoad == Init /\ [][NextLoad]_vars

(***************************************************************************)
(* tokenize_keywords on its own, over texts of a few words.                *)
(***************************************************************************)
MaxWords == 3

Vocabulary == {<<"t", "h", "e">>, <<"u", "s", "e">>, <<"G", "r", "a", "p", "h">>, <<"g", "r", "a", "p", "h">>, <<"n", "e", "t", "s">>, <<"3", "n", "e", "t", "s">>, <<"a", "b">>, <<"x", "-", "y">>}

\* " ".join(ws)
RECURSIVE Join(_)
Join(ws) ==
    IF ws = <<>> THEN <<>>
    ELSE IF Len(ws) = 1 THEN ws[1]
    ELSE ws[1] \o <<" ">> \o Join(Tail(ws))

Texts == {Join(ws) : ws \in UNION {[1..n -> Vocabulary] : n \in 0..MaxWords}}

\* tokenize_keywords(text, topk) is called and returns
Tokenize(text, topk) ==
    /\ resp = <<>>
    /\ resp' = [surface |-> "tokenize", request |-> [text |-> text, topk |-> topk],
                answer |-> tokenize_keywords(text, topk)]
    /\ UNCHANGED <<table, batch, total_items, total_breakdown, pc, fault, ingested, runs,
                   clean, calls>>

NextTokenize == \E text \in Texts, topk \in {0, 1, 2, 10} : Tokenize(text, topk)

SpecTokenize == Init /\ [][NextTokenize]_vars

(***************************************************************************)
(* The loader and the keyword lookup of the command line, over papers that *)
(* share keywords.                                                         *)
(***************************************************************************)
KeywordQueries ==
    {[cmd |-> "keyword", keyword |-> k, limit |-> n] :
        k \in {<<"g", "r", "a", "p", "h">>, <<"G", "r", "a", "p", "h">>, <<"G", "R", "A", "P", "H">>, <<"a", "b">>, <<"A", "B">>, <<"z", "z">>}, n \in {1, 20}}

NextKeyword ==
    \/ StartRun
    \/ \E p \in {PaperA, PaperB, PaperG} : LoopBody(p)
    \/ Finish
    \/ \E q \in KeywordQueries : RunQuery(q)
    \/ Answered

SpecKeyword == Init /\ [][NextKeyword]_vars

\* the endpoint a request path addresses, by the API's route table
IsRecentPath(path) == rstrip_slash(path) = <<"/", "p", "a", "p", "e", "r", "s", "/", "r", "e", "c", "e", "n", "t">>
IsSearchPath(path) == rstrip_slash(path) = <<"/", "p", "a", "p", "e", "r", "s", "/", "s", "e", "a", "r", "c", "h">>
IsAuthorPath(path) == StartsWith(path, <<"/", "p", "a", "p", "e", "r", "s", "/", "a", "u", "t", "h", "o", "r", "/">>)
IsKeywordPath(path) == StartsWith(path, <<"/", "p", "a", "p", "e", "r", "s", "/", "k", "e", "y", "w", "o", "r", "d", "/">>)
IsIdPath(path) ==
    /\ StartsWith(rstrip_slash(path), <<"/", "p", "a", "p", "e", "r", "s", "/">>) /\ count_slash(rstrip_slash(path)) = 2
    /\ ~IsRecentPath(path) /\ ~IsSearchPath(path)
    /\ ~IsAuthorPath(path) /\ ~IsKeywordPath(path)

\* a required parameter of the request is missing or malformed
HasBadLimit(req) == "limit" \in DOMAIN req.qs /\ ~int_ok(req.qs.limit)

BadParameters(req) ==
    \/ IsRecentPath(req.path) /\ ("category" \notin DOMAIN req.qs \/ HasBadLimit(req))
    \/ IsSearchPath(req.path) /\ ~({"category", "start", "end"} \subseteq DOMAIN req.qs)
    \/ IsAuthorPath(req.path) /\ rstrip_slash(after_prefix(req.path, <<"/", "p", "a", "p", "e", "r", "s", "/", "a", "u", "t", "h", "o", "r", "/">>)) = <<>>
    \/ IsKeywordPath(req.path) /\ HasBadLimit(req)

NoEndpoint(req) ==
    /\ ~IsRecentPath(req.path) /\ ~IsSearchPath(req.path) /\ ~IsAuthorPath(req.path)
    /\ ~IsKeywordPath(req.path) /\ ~IsIdPath(req.path)

\* C11: a request with a missing or malformed required parameter is answered 400,
\* a path that matches no endpoint 404, and 500 is never the answer to a request
\* that meets no fault of the store.
C11_StatusCodes ==
    (resp # <<>> /\ resp.surface = "http") =>
        IF BadParameters(resp.request) THEN resp.answer.code = 400
        ELSE IF NoEndpoint(resp.request) THEN resp.answer.code = 404
        ELSE resp.answer.code # 500

\* the kind of an item, told by the index attributes it carries
Kind(it) ==
    IF "GSI2PK" \in DOMAIN it THEN "paper"
    ELSE IF "GSI1PK" \in DOMAIN it THEN "author"
    ELSE IF "GSI3PK" \in DOMAIN it THEN "keyword"
    ELSE "category"

\* the partition keys of the items of one kind, in the order they were built
KindPKs(its, kind) ==
    LET OfKind(it) == Kind(it) = kind
        sel == SelectSeq(its, OfKind)
    IN  [i \in DOMAIN sel |-> sel[i].PK]

Prefixed(prefix, names) == [i \in DOMAIN names |-> prefix \o names[i]]

\* the keyword set of a record: its explicit list whenever it has one, else what
\* the term extractor draws from the abstract
KeywordSet(p) ==
    IF "keywords" \in DOMAIN p THEN p.keywords
    ELSE tokenize_keywords(GetOr(p, "abstract", <<>>), 10)

\* C12: the items built for one paper are exactly one canonical item (PAPER#<id>,
\* 'A'), one item per category, one per author and one per keyword, the keywords
\* being the record's explicit list whenever it has one (an empty one included)
\* and the extracted terms otherwise.
C12_ItemsPerKind ==
    Len(ingested) = 1 =>
        \E p \in {ingested[1]} :
            /\ KindPKs(batch, "paper") = <<<<"P", "A", "P", "E", "R", "#">> \o p.arxiv_id>>
            /\ \A i \in DOMAIN batch : Kind(batch[i]) = "paper" => batch[i].SK = <<"A">>
            /\ KindPKs(batch, "category") = Prefixed(<<"C", "A", "T", "E", "G", "O", "R", "Y", "#">>, GetOr(p, "categories", <<>>))
            /\ KindPKs(batch, "author") = Prefixed(<<"A", "U", "T", "H", "O", "R", "#">>, GetOr(p, "authors", <<>>))
            /\ KindPKs(batch, "keyword") = Prefixed(<<"K", "E", "Y", "W", "O", "R", "D", "#">>, lower_all(KeywordSet(p)))

TokensOf(text) == lower_all(findall(text, 1))
Frequency(text, w) == Cardinality({i \in DOMAIN TokensOf(text) : TokensOf(text)[i] = w})
FirstAt(text, w) ==
    CHOOSE i \in DOMAIN TokensOf(text) :
        /\ TokensOf(text)[i] = w
        /\ \A j \in 1..(i - 1) : TokensOf(text)[j] # w

\* token v ranks before token w: more frequent, or as frequent and met earlier
RanksBefore(text, v, w) ==
    \/ Frequency(text, v) > Frequency(text, w)
    \/ Frequency(text, v) = Frequency(text, w) /\ FirstAt(text, v) < FirstAt(text, w)

\* C14: tokenize_keywords(text, K) returns at most K pairwise distinct lower-case
\* tokens of the text, none a stop word or shorter than 3 characters, ordered by
\* descending frequency with ties in order of first occurrence (and no token left
\* out ranks before one returned); an empty text gives the empty list.
C14_TopKeywords ==
    (resp # <<>> /\ resp.surface = "tokenize") =>
        \E text \in {resp.request.text} : \E r \in {resp.answer} :
            /\ Len(r) <= resp.request.topk
            /\ \A i, j \in DOMAIN r : i # j => r[i] # r[j]
            /\ \A i \in DOMAIN r :
                /\ r[i] \in SeqToSet(TokensOf(text))
                /\ r[i] = lower(r[i])
                /\ r[i] \notin STOPWORDS
                /\ Len(r[i]) >= 3
            /\ \A i, j \in DOMAIN r : i < j => RanksBefore(text, r[i], r[j])
            /\ \A w \in SeqToSet(TokensOf(text)) \ SeqToSet(r) :
                \/ w \in STOPWORDS
                \/ Len(w) < 3
                \/ Len(r) = resp.request.topk /\ \A i \in DOMAIN r : RanksBefore(text, r[i], w)
            /\ text = <<>> => r = <<>>

\* three tokens, one of them twice up to its case: the more frequent comes first
C14_Witness ==
    /\ resp # <<>>
    /\ resp.surface = "tokenize"
    /\ resp.request = [text |-> <<"n", "e", "t", "s", " ", "G", "r", "a", "p", "h", " ", "g", "r", "a", "p", "h">>, topk |-> 2]
    /\ resp.answer = <<<<"g", "r", "a", "p", "h">>, <<"n", "e", "t", "s">>>>

\* str.upper()
upper(s) ==
    [i \in 1..Len(s) |-> IF CodePoint[s[i]] \in 97..122 THEN Chr(CodePoint[s[i]] - 32) ELSE s[i]]

\* a keyword as given, all lower case, all upper case, and with a capital initial
CaseVariants(k) == {k, lower(k), upper(k), upper(Prefix(k, 1)) \o lower(Tail(k))}

\* C15: after completed runs, for every ingested paper E and every keyword k of E
\* (explicit in any case, or extracted), the keyword lookup of any case variant of
\* k with a limit that covers the partition returns E's keyword item; and every
\* keyword answer is in descending sort-key order and holds at most limit items.
C15_KeywordLookupIgnoresCase ==
    /\ Completed =>
        \A i \in DOMAIN ingested :
            \A k \in SeqToSet(keywords_of(ingested[i])) :
                \A v \in CaseVariants(k) :
                    \E r \in {query_papers_by_keyword(table, v, Cardinality(table))} :
                        \E j \in DOMAIN r.results :
                            /\ r.results[j].PK = <<"K", "E", "Y", "W", "O", "R", "D", "#">> \o lower(k)
                            /\ r.results[j].SK = date_id_key(ingested[i])
                            /\ IsLatest(i) => Payload(r.results[j]) = base_attrs(ingested[i])
    /\ (resp # <<>> /\ resp.surface = "cli" /\ resp.request.cmd = "keyword") =>
        /\ resp.answer.count <= resp.request.limit
        /\ \A a, b \in DOMAIN resp.answer.results :
            a < b => StrLeq(resp.answer.results[b].GSI3SK, resp.answer.results[a].GSI3SK)
        /\ \A a \in DOMAIN resp.answer.results :
            resp.answer.results[a].GSI3PK = <<"K", "E", "Y", "W", "O", "R", "D", "#">> \o lower(resp.request.keyword)

\* three papers' worth of keywords: GRAPH was typed for a keyword stored as graph by
\* two papers, and the answer of limit 1 is the later paper
C15_Witness ==
    /\ Completed
    /\ ingested = <<PaperA, PaperG>>
    /\ resp # <<>>
    /\ resp.request = [cmd |-> "keyword", keyword |-> <<"G", "R", "A", "P", "H">>, limit |-> 1]
    /\ resp.answer.count = 1
    /\ resp.answer.results[1].arxiv_id = PaperG.arxiv_id

\* the list `batch` is the one the last put_batch call was given
JustPut == batch # <<>> /\ (pc = "done" \/ fault = "put_batch")

\* C16: no store-write call carries two items with the same (PK, SK); of several
\* occurrences of one key that meet in the writer's buffer only the last is sent,
\* so a put_batch that leaves in one call sends one item per key, the last
\* occurrence of each, and what is stored under each key is its last occurrence.
C16_NoDuplicateKeyInACall ==
    JustPut =>
        \E chunks \in {writer_calls(batch, <<>>)} :
            /\ \A c \in DOMAIN chunks : ~HasDupKeys(chunks[c])
            /\ Len(calls) <= Len(chunks)
            /\ \A c \in DOMAIN calls : calls[c] = Len(chunks[c])
            /\ Len(chunks) = 1 => SeqToSet(chunks[1]) = last_writes(batch)
            /\ pc = "done" => last_writes(batch) \subseteq table

\* PaperB alone: six items built, an author and a keyword twice, four items sent
C16_Witness ==
    /\ pc = "done"
    /\ ingested = <<PaperB>>
    /\ Len(batch) = 6
    /\ Cardinality(last_writes(batch)) = 4
    /\ calls = <<4>>
    /\ Cardinality(table) = 4

\* where the items of paper number i begin in the list of all items built
RECURSIVE Offset(_)
Offset(i) ==
    IF i = 1 THEN 0 ELSE Offset(i - 1) + Len(build_items_for_paper(ingested[i - 1]))

\* the category, author and keyword items built for paper number i
PointerItems(i) ==
    {batch[k] : k \in {n \in (Offset(i) + 1)..Offset(i + 1) : Kind(batch[n]) # "paper"}}

\* four digits, a dash, two digits, a dash, two digits
FixedWidthDate(d) ==
    /\ Len(d) = 10
    /\ \A i \in 1..10 : IF i \in {5, 8} THEN d[i] = "-" ELSE IsDigit(d[i])

RawPublished(p) == GetOr(p, "published", <<>>)

\* published as a date of the calendar: f[1] tells whether it parses at all
Parsed(p) == fromisoformat(RemoveZ(RawPublished(p)))
DayNumber(f) == 10000 * f[2] + 100 * f[3] + f[4]

\* C17 as claimed: every category, author and keyword item has the sort key
\* <date>#<id> with <date> a fixed-width YYYY-MM-DD value, whatever published is.
C17_FixedWidthDateInSortKey ==
    \A i \in DOMAIN ingested :
        \A it \in PointerItems(i) :
            /\ it.SK = DateOf(it) \o <<"#">> \o ingested[i].arxiv_id
            /\ FixedWidthDate(DateOf(it))

\* C17, amended: the sort key is <date>#<id>, where <date> is the fixed-width
\* YYYY-MM-DD date of published when published parses as an ISO date or timestamp,
\* and otherwise the first 10 characters of the raw string (fewer when it is
\* shorter, none when it is missing); between two papers whose published parses,
\* the lexical order of the sort keys follows the chronological order.
C17_DateOrPrefixInSortKey ==
    \E items \in {[i \in DOMAIN ingested |-> PointerItems(i)]} :
    \E date \in {[i \in DOMAIN ingested |-> Parsed(ingested[i])]} :
        /\ \A i \in DOMAIN ingested :
            \A it \in items[i] :
                /\ it.SK = DateOf(it) \o <<"#">> \o ingested[i].arxiv_id
                /\ IF date[i][1]
                   THEN /\ FixedWidthDate(DateOf(it))
                        /\ DigitsVal(SubSeq(DateOf(it), 1, 4)) = date[i][2]
                        /\ DigitsVal(SubSeq(DateOf(it), 6, 7)) = date[i][3]
                        /\ DigitsVal(SubSeq(DateOf(it), 9, 10)) = date[i][4]
                   ELSE DateOf(it) = Prefix(RawPublished(ingested[i]), 10)
        /\ \A i, j \in DOMAIN ingested :
            (date[i][1] /\ date[j][1] /\ DayNumber(date[i]) < DayNumber(date[j]))
                => \A x \in items[i], y \in items[j] : StrLess(x.SK, y.SK)

\* a timestamp and a bare year: the first paper's keys carry the date of the
\* timestamp, the second paper's the four characters as they stand
C17_Witness ==
    /\ Len(ingested) = 2
    /\ RawPublished(ingested[1]) = <<"2", "0", "2", "3", "-", "0", "1", "-", "1", "5", "T", "0", "0", ":", "0", "0", ":", "0", "0", "Z">>
    /\ RawPublished(ingested[2]) = <<"2", "0", "2", "3">>
    /\ \E it \in PointerItems(1) : it.SK = <<"2", "0", "2", "3", "-", "0", "1", "-", "1", "5", "#">> \o ingested[1].arxiv_id
    /\ \E it \in PointerItems(2) : it.SK = <<"2", "0", "2", "3", "#">> \o ingested[2].arxiv_id

\* C18: at the end of a failure-free run into an empty table the total the summary
\* reports as created is the sum of the four per-kind counters and is the number
\* of items the table holds.
C18_ReportedTotalIsStoredCount ==
    (Completed /\ runs = 1) =>
        /\ total_items = total_breakdown.category + total_breakdown.author
                            + total_breakdown.keyword + total_breakdown.paper
        /\ total_items = Cardinality(table)

HasHash(s) == \E i \in DOMAIN s : s[i] = "#"

\* C19 as claimed: two items built for entities of different ids, or two items of
\* different kinds, never have the same (PK, SK), whatever published and id are.
C19_KeysNeverCollide ==
    \A m, n \in DOMAIN batch :
        (batch[m].arxiv_id # batch[n].arxiv_id \/ Kind(batch[m]) # Kind(batch[n]))
            => ~SameKey(batch[m], batch[n])

\* C19, amended: two items of different kinds never have the same (PK, SK), and
\* two items built for entities of different ids never have it when neither id
\* contains the separator '#', whatever published is.
C19_KeysOfHashFreeIdsNeverCollide ==
    \A m, n \in DOMAIN batch :
        (\/ Kind(batch[m]) # Kind(batch[n])
         \/ /\ batch[m].arxiv_id # batch[n].arxiv_id
            /\ ~HasHash(batch[m].arxiv_id) /\ ~HasHash(batch[n].arxiv_id))
            => ~SameKey(batch[m], batch[n])

\* ids d and yd under published x#y and x: the category keys x#y#d and x#yd are as
\* close as two keys of different entities get, and differ
C19_Witness ==
    /\ Len(ingested) = 2
    /\ ingested[1].arxiv_id = <<"d">> /\ RawPublished(ingested[1]) = <<"x", "#", "y">>
    /\ ingested[2].arxiv_id = <<"y", "d">> /\ RawPublished(ingested[2]) = <<"x">>
    /\ \E it \in PointerItems(1) : it.PK = <<"C", "A", "T", "E", "G", "O", "R", "Y", "#", "c">> /\ it.SK = <<"x", "#", "y", "#", "d">>
    /\ \E it \in PointerItems(2) : it.PK = <<"C", "A", "T", "E", "G", "O", "R", "Y", "#", "c">> /\ it.SK = <<"x", "#", "y", "d">>

====
